---- MODULE Spec2Model ----
(***************************************************************************)
(* A model of the time-tracker command line tool: the Slot / Activity /    *)
(* Day value types (day.rs, activity.rs, settings.rs) and the UI commands  *)
(* and main() of main.rs.                                                  *)
(*                                                                         *)
(* Text is a sequence of one-character strings, Option<T> is a sequence of *)
(* length 0 (None) or 1 (Some), Result<Slot, _> likewise (Err / Ok).       *)
(***************************************************************************)
EXTENDS Integers, Sequences, FiniteSets, TLC

VARIABLES
    pc,        \* which operation produced the current state
    clock,     \* the wall clock read by Local::now(): [date, hour, minute]
    text,      \* the text last handed to Slot::try_from
    hm,        \* the <<hour, minute>> last handed to Slot::from_time
    slotRes,   \* the Result / value of the last Slot operation
    shown,     \* the Display text of slotRes (when it is a Slot)
    files,     \* data_dir: date |-> Option<time_slots of the persisted Day>
    day,       \* ui.day.time_slots when the last run ended
    before,    \* ui.day.time_slots right after the last run loaded it
    io,        \* the interactive and external inputs of the last run
    out,       \* what the last run printed / how it ended
    tmpfile,   \* the lines of /tmp/time-track.tmp read back by the last edit
    activities,\* settings.activities, the catalog read from the config file
    runs,      \* how many times the program has been run
    edits,     \* how many of the runs were 'edit'
    timed,     \* how many of the runs were 'activity'
    shortcuts  \* settings.shortcuts, the cached table; None in a new Settings

slotVars == <<text, hm, slotRes, shown>>
progVars ==
    <<files, day, before, io, out, tmpfile, activities, runs, edits, timed, shortcuts>>
vars == <<pc, clock, text, hm, slotRes, shown, files, day, before, io, out, tmpfile,
          activities, runs, edits, timed, shortcuts>>

(***************************************************************************)
(* Program constants                                                       *)
(***************************************************************************)
SLOTS_PER_HOUR == 4
DAY_SLOTS == 24 * SLOTS_PER_HOUR
DAY_START == 4 * SLOTS_PER_HOUR

(***************************************************************************)
(* Bounds of the model                                                     *)
(***************************************************************************)
MaxTextLen == 4      \* Slot texts: every text of at most this many characters
MaxDate == 1         \* the tracked days are 0..MaxDate
MaxNow == 2          \* the clock is read in slots 0..MaxNow and in the last slot
MaxRuns == 2         \* runs of the program in one behaviour
MaxEdits == 1        \* of which runs of the 'edit' command
MaxTimed == 1        \* of which runs of the 'activity' command

(***************************************************************************)
(* Option / Result                                                         *)
(***************************************************************************)
None == <<>>
Some(x) == <<x>>
is_some(o) == o # <<>>
unwrap(o) == o[1]
unwrap_or(o, d) == IF o # <<>> THEN o[1] ELSE d

(***************************************************************************)
(* Text helpers: str::parse::<usize>, str::split_once, format!("{:02}")    *)
(***************************************************************************)
Digits == <<"0", "1", "2", "3", "4", "5", "6", "7", "8", "9">>
IsDigit(c) == \E i \in 1..10 : Digits[i] = c
DigitVal(c) == (CHOOSE i \in 1..10 : Digits[i] = c) - 1

RECURSIVE DecimalValue(_)
DecimalValue(s) ==
    IF s = <<>> THEN 0
    ELSE 10 * DecimalValue(SubSeq(s, 1, Len(s) - 1)) + DigitVal(s[Len(s)])

\* usize::from_str: an optional leading '+', then one or more decimal digits.
\* (The texts of the model are too short to overflow a usize.)
parse_usize(s) ==
    LET body == IF s # <<>> /\ s[1] = "+" THEN Tail(s) ELSE s
    IN  IF body = <<>> \/ \E i \in 1..Len(body) : ~IsDigit(body[i])
        THEN None
        ELSE Some(DecimalValue(body))

\* str::split_once with a one-character delimiter: split at its first occurrence
split_once(s, c) ==
    IF \E i \in 1..Len(s) : s[i] = c
    THEN LET i == CHOOSE k \in 1..Len(s) :
                      s[k] = c /\ \A j \in 1..(k - 1) : s[j] # c
         IN  Some(<<SubSeq(s, 1, i - 1), SubSeq(s, i + 1, Len(s))>>)
    ELSE None

RECURSIVE ToDecimal(_)
ToDecimal(n) ==
    IF n < 10 THEN <<Digits[n + 1]>>
    ELSE ToDecimal(n \div 10) \o <<Digits[(n % 10) + 1]>>

\* format!("{:02}", n)
Pad2(n) == IF n < 10 THEN <<"0">> \o ToDecimal(n) ELSE ToDecimal(n)

(***************************************************************************)
(* Slot (day.rs)                                                           *)
(***************************************************************************)
\* from_time without the wrap modulo DAY_SLOTS
from_time_unwrapped(hour, minute) ==
    LET minutes_per_slot == 60 \div SLOTS_PER_HOUR
    IN  (hour * SLOTS_PER_HOUR + minute \div minutes_per_slot) - DAY_START
            + DAY_SLOTS

from_time(hour, minute) ==
    LET minutes_per_slot == 60 \div SLOTS_PER_HOUR
    IN  ((hour * SLOTS_PER_HOUR + minute \div minutes_per_slot) - DAY_START
            + DAY_SLOTS) % DAY_SLOTS

\* Slot::now(), cfg(not(test)): the slot of the wall clock
now(c) == from_time(c.hour, c.minute)

next(slot) == slot + 1

\* try_from with `text_min.parse()?` in place of `.unwrap_or(0)`
try_from_strict_minute(t, cur) ==
    IF t = <<"n", "o", "w">> \/ t = <<"n">> \/ t = <<>>
    THEN Some(cur)
    ELSE LET sp  == split_once(t, ":")
             hrs == IF sp # None THEN parse_usize(sp[1][1]) ELSE parse_usize(t)
             min == IF sp # None THEN parse_usize(sp[1][2]) ELSE Some(0)
         IN  IF hrs = None \/ min = None THEN None
             ELSE IF unwrap(hrs) > 23 \/ unwrap(min) > 59 THEN None
             ELSE Some(from_time(unwrap(hrs), unwrap(min)))

\* impl TryFrom<String> for Slot; cur is Slot::now()
try_from(t, cur) ==
    IF t = <<"n", "o", "w">> \/ t = <<"n">> \/ t = <<>>
    THEN Some(cur)
    ELSE LET sp  == split_once(t, ":")
             hrs == IF sp # None THEN parse_usize(sp[1][1]) ELSE parse_usize(t)
             min == IF sp # None THEN unwrap_or(parse_usize(sp[1][2]), 0) ELSE 0
         IN  IF hrs = None THEN None
             ELSE IF unwrap(hrs) > 23 \/ min > 59 THEN None
             ELSE Some(from_time(unwrap(hrs), min))

\* impl Display for Slot
Display(slot) ==
    LET shifted == (slot + DAY_START) % DAY_SLOTS
        hour    == shifted \div SLOTS_PER_HOUR
        minutes == (shifted % SLOTS_PER_HOUR) * (60 \div SLOTS_PER_HOUR)
    IN  Pad2(hour) \o <<":">> \o Pad2(minutes)

(***************************************************************************)
(* Activity (activity.rs)                                                  *)
(***************************************************************************)
Activity(n, p, c) == [name |-> n, productive |-> p, comment |-> c]

\* impl PartialEq for Activity (activity.rs): by name alone
ActivityEq(a, b) == a.name = b.name

\* #[derive(PartialEq)] on the copy of Activity in main.rs: all fields
ActivityEqMain(a, b) ==
    a.name = b.name /\ a.productive = b.productive /\ a.comment = b.comment

\* #[derive(Hash)]: the hash is fed every field, in declaration order
ActivityHash(a) == <<a.name, a.productive, a.comment>>

\* PartialEq of Option<Activity>, built on an equality of Activity
OptionEq(x, y, eq(_, _)) ==
    IF x = None \/ y = None THEN x = y ELSE eq(unwrap(x), unwrap(y))

\* get_by_name returning the last match instead of the first
get_by_name_last(actis, n) ==
    IF \E i \in 1..Len(actis) : actis[i].name = n
    THEN Some(actis[CHOOSE i \in 1..Len(actis) :
                  actis[i].name = n /\ \A j \in (i + 1)..Len(actis) : actis[j].name # n])
    ELSE None

\* Activity::get_by_name: a clone of the first entry with that name
get_by_name(actis, n) ==
    IF \E i \in 1..Len(actis) : actis[i].name = n
    THEN Some(actis[CHOOSE i \in 1..Len(actis) :
                  actis[i].name = n /\ \A j \in 1..(i - 1) : actis[j].name # n])
    ELSE None

\* impl Display for Activity, without the terminal colour codes
ActivityDisplay(a) ==
    IF a.comment # None THEN a.name \o <<" ", "-", " ">> \o unwrap(a.comment)
    ELSE a.name

(***************************************************************************)
(* Settings (settings.rs): the shortcut table                              *)
(***************************************************************************)
\* the first character of the name, claimed by an earlier activity or not
FirstChar(n, sc) == IF n = <<>> THEN None ELSE Some(n[1])

\* .chars().find(|c| !shortcuts.contains(&Some(*c)))
FirstFreeChar(n, sc) ==
    IF \E i \in 1..Len(n) : Some(n[i]) \notin { sc[k] : k \in 1..Len(sc) }
    THEN Some(n[CHOOSE i \in 1..Len(n) :
              /\ Some(n[i]) \notin { sc[k] : k \in 1..Len(sc) }
              /\ \A j \in 1..(i - 1) : Some(n[j]) \in { sc[k] : k \in 1..Len(sc) }])
    ELSE None

RECURSIVE derive_shortcuts(_, _)
derive_shortcuts(actis, sc) ==
    IF Len(sc) = Len(actis) THEN sc
    ELSE derive_shortcuts(actis, Append(sc, FirstFreeChar(actis[Len(sc) + 1].name, sc)))

\* Settings::get_shortcuts on a Settings whose cache is still empty
get_shortcuts(actis) == derive_shortcuts(actis, <<>>)

(***************************************************************************)
(* Activity::prompt: the first character of the trimmed input line picks   *)
(* the activity; inp is None when the line is empty or stdin is closed.    *)
(***************************************************************************)
Letters == {"a", "b", "c", "d", "e", "m", "n", "o", "p", "t", "w", "x", "y"}

\* char::is_numeric / char::is_alphabetic on the characters of the model
is_numeric(c) == IsDigit(c)
is_alphabetic(c) == c \in Letters

\* the index (from 1) of the chosen catalog entry, or None, when
\* settings.get_shortcuts() returned table
prompt_table(actis, table, inp) ==
    IF inp = None THEN None
    ELSE LET input == unwrap(inp)
         IN  IF is_numeric(input)
             THEN IF DigitVal(input) < Len(actis) THEN Some(DigitVal(input) + 1) ELSE None
             ELSE IF is_alphabetic(input)
             THEN IF \E i \in 1..Len(table) : table[i] = Some(input)
                  THEN Some(CHOOSE i \in 1..Len(table) :
                            /\ table[i] = Some(input)
                            /\ \A j \in 1..(i - 1) : table[j] # Some(input))
                  ELSE None
             ELSE None

\* Activity::prompt on a Settings whose cache is still empty
prompt(actis, inp) == prompt_table(actis, get_shortcuts(actis), inp)

(***************************************************************************)
(* Day (day.rs); time_slots is a sequence, Slot(s) is its element s + 1    *)
(***************************************************************************)
\* impl Default for Day
DefaultDay == [i \in 1..DAY_SLOTS |-> None]

Min(a, b) == IF a < b THEN a ELSE b

\* entry_before_now finding the first non-empty slot before cur, not the last
entry_before_now_first(ts, cur) ==
    LET taken == { s \in 0..(Min(cur, Len(ts)) - 1) : is_some(ts[s + 1]) }
    IN  IF taken = {} THEN None
        ELSE Some(CHOOSE s \in taken : \A r \in taken : s <= r)

\* Day::entry_before_now: the index of the last non-empty slot before cur
entry_before_now(ts, cur) ==
    LET taken == { s \in 0..(Min(cur, Len(ts)) - 1) : is_some(ts[s + 1]) }
    IN  IF taken = {} THEN None
        ELSE Some(CHOOSE s \in taken : \A r \in taken : r <= s)

\* Day::first_non_empty
first_non_empty(ts) ==
    LET used == { s \in 0..(Len(ts) - 1) : is_some(ts[s + 1]) }
    IN  IF used = {} THEN None
        ELSE Some(CHOOSE s \in used : \A r \in used : s <= r)

\* now_or_last_entry without the look back at the last entry
now_or_last_entry_now(ts, cur) == cur

\* Day::now_or_last_entry
now_or_last_entry(ts, cur) ==
    IF is_some(entry_before_now(ts, cur))
    THEN next(unwrap(entry_before_now(ts, cur)))
    ELSE cur

\* Day::slots: one (start, end, slot) per raw slot
slots(ts) == [i \in 1..Len(ts) |-> <<i - 1, next(i - 1), ts[i]>>]

\* the split test without its comparison of the comments
SplitsRun_name_only(act, o) == ~OptionEq(act, o, ActivityEq)

\* the split test of Day::slots_collapsed in day.rs (line 141)
SplitsRun(act, o) ==
    \/ ~OptionEq(act, o, ActivityEq)
    \/ (is_some(act) /\ is_some(o) /\ unwrap(act).comment # unwrap(o).comment)

\* the split test of the copy of slots_collapsed in main.rs (line 294)
SplitsRunMain(act, o) == ~OptionEq(act, o, ActivityEqMain)

\* one call of the closure given to scan() in day.rs: from the scan state
\* (None, or Some of <<start, activity>>) and element o at index i to the new
\* state and the runs emitted (none or one)
scan_step(state, i, o) ==
    IF state # None
    THEN IF SplitsRun(unwrap(state)[2], o)
         THEN [state |-> Some(<<i, o>>),
               runs  |-> <<<<unwrap(state)[1], i, unwrap(state)[2]>>>>]
         ELSE [state |-> state, runs |-> <<>>]
    ELSE [state |-> Some(<<i, o>>), runs |-> <<>>]

\* the scan over the elements lo..hi-1 from a scan state, left to right
\* (halved, the left half evaluated first, to keep the evaluation shallow)
RECURSIVE scan_collapsed(_, _, _, _)
scan_collapsed(ts, lo, hi, state) ==
    IF hi <= lo THEN [state |-> state, runs |-> <<>>]
    ELSE IF hi = lo + 1 THEN scan_step(state, lo, ts[lo + 1])
    ELSE LET mid == (lo + hi) \div 2
         IN  CHOOSE res \in UNION {
                 { [state |-> right.state, runs |-> left.runs \o right.runs] :
                     right \in {scan_collapsed(ts, mid, hi, left.state)} } :
                 left \in {scan_collapsed(ts, lo, mid, state)} } : TRUE

\* Day::slots_collapsed (day.rs): what the scan emitted; the state left in
\* the scan at the end of the slots is dropped
slots_collapsed(ts) == scan_collapsed(ts, 0, Len(ts), None).runs

\* the same for the copy of slots_collapsed in main.rs
scan_step_main(state, i, o) ==
    IF state # None
    THEN IF SplitsRunMain(unwrap(state)[2], o)
         THEN [state |-> Some(<<i, o>>),
               runs  |-> <<<<unwrap(state)[1], i, unwrap(state)[2]>>>>]
         ELSE [state |-> state, runs |-> <<>>]
    ELSE [state |-> Some(<<i, o>>), runs |-> <<>>]

RECURSIVE scan_collapsed_main(_, _, _, _)
scan_collapsed_main(ts, lo, hi, state) ==
    IF hi <= lo THEN [state |-> state, runs |-> <<>>]
    ELSE IF hi = lo + 1 THEN scan_step_main(state, lo, ts[lo + 1])
    ELSE LET mid == (lo + hi) \div 2
         IN  CHOOSE res \in UNION {
                 { [state |-> right.state, runs |-> left.runs \o right.runs] :
                     right \in {scan_collapsed_main(ts, mid, hi, left.state)} } :
                 left \in {scan_collapsed_main(ts, lo, mid, state)} } : TRUE

slots_collapsed_main(ts) == scan_collapsed_main(ts, 0, Len(ts), None).runs

\* Day::hours_productive, in slots (the code divides by SLOTS_PER_HOUR as f32)
productive_slots(ts) ==
    Cardinality({ i \in 1..Len(ts) : is_some(ts[i]) /\ unwrap(ts[i]).productive })

\* Day::print_stats: the runs it prints, as (start, end, Option<Activity>)
print_stats(ts, cur, with_current_time, trim_start) ==
    LET fne == first_non_empty(ts)
        Shown(r) == /\ (~with_current_time \/ r[1] <= cur)
                    /\ (~trim_start \/ fne = None \/ r[1] >= unwrap(fne))
    IN  SelectSeq(slots_collapsed(ts), Shown)

\* serde_json of Day: None is null, `comment` is skipped when it is None
to_json(ts) ==
    [i \in 1..Len(ts) |->
        IF ts[i] = None THEN [null |-> TRUE]
        ELSE IF unwrap(ts[i]).comment = None
        THEN [name |-> unwrap(ts[i]).name, productive |-> unwrap(ts[i]).productive]
        ELSE [name |-> unwrap(ts[i]).name, productive |-> unwrap(ts[i]).productive,
              comment |-> unwrap(unwrap(ts[i]).comment)]]

from_json(js) ==
    [i \in 1..Len(js) |->
        IF "null" \in DOMAIN js[i] THEN None
        ELSE Some(Activity(js[i].name, js[i].productive,
                           IF "comment" \in DOMAIN js[i] THEN Some(js[i].comment) ELSE None))]

(***************************************************************************)
(* The timeline text of UI::edit_with_text_editor (main.rs)                *)
(***************************************************************************)
Sep == <<" ", "-", " ">>

\* does sep occur in s at position i
MatchAt(s, sep, i) ==
    /\ i + Len(sep) - 1 <= Len(s)
    /\ \A k \in 1..Len(sep) : s[i + k - 1] = sep[k]

\* the first position from i on where sep occurs in s, 0 when there is none
RECURSIVE FirstMatch(_, _, _)
FirstMatch(s, sep, i) ==
    IF i + Len(sep) - 1 > Len(s) THEN 0
    ELSE IF MatchAt(s, sep, i) THEN i
    ELSE FirstMatch(s, sep, i + 1)

\* str::split(sep): cut at the non-overlapping matches, left to right
RECURSIVE split(_, _)
split(s, sep) ==
    LET i == FirstMatch(s, sep, 1)
    IN  IF i = 0 THEN <<s>>
        ELSE <<SubSeq(s, 1, i - 1)>> \o split(SubSeq(s, i + Len(sep), Len(s)), sep)

\* the lines that str::lines() finds in what writeln!(data, "{}", s) appended:
\* the pieces between line feeds, each without one trailing carriage return
written_lines(s) ==
    LET pieces == split(s, <<"\n">>)
    IN  [i \in 1..Len(pieces) |->
            IF pieces[i] # <<>> /\ pieces[i][Len(pieces[i])] = "\r"
            THEN SubSeq(pieces[i], 1, Len(pieces[i]) - 1)
            ELSE pieces[i]]

\* the concatenation of ss[lo..hi]
RECURSIVE FlattenRange(_, _, _)
FlattenRange(ss, lo, hi) ==
    IF hi < lo THEN <<>>
    ELSE IF hi = lo THEN ss[lo]
    ELSE FlattenRange(ss, lo, (lo + hi) \div 2) \o FlattenRange(ss, ((lo + hi) \div 2) + 1, hi)

Flatten(ss) == FlattenRange(ss, 1, Len(ss))

\* the three instruction lines, shortened to their first words
HeaderLines ==
    << <<"#", " ", "D", "o">>, <<"#", " ", "E", "d", "i", "t">>, <<"#", " ", "T", "h", "e">> >>

\* the line written for one raw slot (s, e, o)
export_line(sl) ==
    LET name    == IF is_some(sl[3]) THEN unwrap(sl[3]).name ELSE <<"e", "m", "p", "t", "y">>
        comment == IF is_some(sl[3]) /\ is_some(unwrap(sl[3]).comment)
                   THEN Sep \o unwrap(unwrap(sl[3]).comment) ELSE <<>>
    IN  Display(sl[1]) \o <<"-">> \o Display(sl[2]) \o Sep \o name \o comment

\* the lines of the temporary file handed to the editor
export_timeline(ts) ==
    HeaderLines \o Flatten([i \in 1..Len(ts) |->
                              written_lines(export_line(<<i - 1, next(i - 1), ts[i]>>))])

starts_with(s, c) == s # <<>> /\ s[1] = c

IsDataLine(l) == ~starts_with(l, "#")

\* the closure mapped over the data lines; None stands for the panic of
\* .expect("format") on a line without a second field
import_line(actis, l) ==
    LET splits == split(l, Sep)
    IN  IF Len(splits) < 2 THEN None
        ELSE LET activity == get_by_name(actis, splits[2])
             IN  IF is_some(activity)
                 THEN Some(Some([unwrap(activity) EXCEPT
                          !.comment = IF Len(splits) >= 3 THEN Some(splits[3]) ELSE None]))
                 ELSE Some(None)

\* the re-import: None when a data line panics, else Some(new time_slots)
import_timeline(actis, lines) ==
    LET data     == SelectSeq(lines, IsDataLine)
        imported == [i \in 1..Len(data) |-> import_line(actis, data[i])]
    IN  IF \E i \in 1..Len(data) : imported[i] = None
        THEN None
        ELSE Some([i \in 1..Len(data) |-> unwrap(imported[i])])

(***************************************************************************)
(* The environment of a run: wall clock, data directory, catalog           *)
(***************************************************************************)
NowSlots == (0..MaxNow) \cup {DAY_SLOTS - 1}

\* the wall clock at the start of slot s of tracked day d
ClockAt(d, s) ==
    LET sh == s + DAY_START
    IN  [date   |-> d + (sh \div DAY_SLOTS),
         hour   |-> (sh % DAY_SLOTS) \div SLOTS_PER_HOUR,
         minute |-> ((sh % DAY_SLOTS) % SLOTS_PER_HOUR) * (60 \div SLOTS_PER_HOUR)]

Clocks == { ClockAt(d, s) : d \in 0..MaxDate, s \in NowSlots }

ClockOrd(c) == ((c.date * 24) + c.hour) * 60 + c.minute

\* the date in Settings::get_filename_today: that of Local::now() - 4 hours
today_date(c) == IF c.hour >= DAY_START \div SLOTS_PER_HOUR THEN c.date ELSE c.date - 1

FileDates == 0..MaxDate

\* the content of the file of a date, None when file.exists() is false
FileAt(fs, d) == IF d \in DOMAIN fs THEN fs[d] ELSE None

ActA == Activity(<<"a">>, TRUE, None)
ActB == Activity(<<"b">>, FALSE, None)
Cat1 == <<ActA, ActB>>
\* a catalog with a repeated name, whose first "b" is productive and commented
Cat2 == <<Activity(<<"b">>, TRUE, Some(<<"c">>)), ActA, ActB>>

(***************************************************************************)
(* main(): load today's Day, run one command, save                         *)
(***************************************************************************)
\* main.rs 690-701: today's Day as loaded, or the default Day
Loaded ==
    IF is_some(FileAt(files, today_date(clock)))
    THEN from_json(unwrap(FileAt(files, today_date(clock))))
    ELSE DefaultDay

\* main.rs 702: assert_eq!(day.time_slots.len(), DAY_SLOTS)
LoadOk == Len(Loaded) = DAY_SLOTS

\* a save that writes the file only when the Day differs from the loaded one
Save_when_changed(ts) ==
    IF ts = Loaded THEN UNCHANGED files
    ELSE files' = [files EXCEPT ![today_date(clock)] = Some(to_json(ts))]

\* ui.save() at the end of main
Save(ts) == files' = [files EXCEPT ![today_date(clock)] = Some(to_json(ts))]

NoOut == [exit |-> "ok", printed |-> <<>>, collapsed |-> <<>>, collapsed_main |-> <<>>,
          shown_len |-> 0, asked |-> None, choice |-> None,
          days |-> <<>>, ndays |-> 0, target |-> 0, breakdown |-> <<>>, total |-> 0, by_activity |-> <<>>, by_activity_main |-> <<>>,
          json |-> <<>>, json_main |-> <<>>,
          offered |-> <<>>, point |-> None, asks |-> <<>>, choices |-> <<>>,
          loaded_dates |-> <<>>, table |-> <<>>, shortcut |-> None]

\* a run whose assertion on the loaded Day fails, whatever the command
RunLoadAbort ==
    /\ runs < MaxRuns
    /\ ~LoadOk
    /\ pc' = "aborted"
    /\ runs' = runs + 1
    /\ before' = Loaded /\ day' = Loaded
    /\ io' = [cmd |-> "any"]
    /\ out' = [NoOut EXCEPT !.exit = "panic"]
    /\ tmpfile' = <<>>
    /\ UNCHANGED <<clock, shortcuts, files, activities, edits, timed>> /\ UNCHANGED slotVars

\* the 'today' command: print_stats(true, true) of today's Day
RunToday ==
    /\ runs < MaxRuns
    /\ LoadOk
    /\ pc' = "today"
    /\ runs' = runs + 1
    /\ before' = Loaded /\ day' = Loaded
    /\ io' = [cmd |-> "today"]
    /\ out' = [NoOut EXCEPT !.printed = print_stats(Loaded, now(clock), TRUE, TRUE),
                            !.collapsed = slots_collapsed(Loaded),
                            !.collapsed_main = slots_collapsed_main(Loaded),
                            !.shown_len = Len(Loaded)]
    /\ Save(Loaded)
    /\ tmpfile' = <<>>
    /\ UNCHANGED <<clock, shortcuts, activities, edits, timed>> /\ UNCHANGED slotVars

\* the body shared by the 'day' and 'yesterday' commands: load the file of
\* date d (a missing file panics in .expect) and print_stats(false, true)
ShowDay(cmd, d) ==
    /\ pc' = cmd
    /\ runs' = runs + 1
    /\ before' = Loaded /\ day' = Loaded
    /\ io' = [cmd |-> cmd, date |-> d]
    /\ IF is_some(FileAt(files, d))
       THEN LET other == from_json(unwrap(FileAt(files, d)))
            IN  /\ out' = [NoOut EXCEPT
                        !.printed = print_stats(other, now(clock), FALSE, TRUE),
                        !.collapsed = slots_collapsed(other),
                        !.collapsed_main = slots_collapsed_main(other),
                        !.shown_len = Len(other)]
                /\ Save(Loaded)
       ELSE /\ out' = [NoOut EXCEPT !.exit = "panic"]
            /\ UNCHANGED files
    /\ tmpfile' = <<>>
    /\ UNCHANGED <<clock, shortcuts, activities, edits, timed>> /\ UNCHANGED slotVars

\* the 'day' command, the date typed in by the user
RunDay ==
    /\ runs < MaxRuns
    /\ LoadOk
    /\ \E d \in (-1)..(MaxDate + 1) : ShowDay("day", d)

\* the 'yesterday' command
RunYesterday ==
    /\ runs < MaxRuns
    /\ LoadOk
    /\ ShowDay("yesterday", today_date(clock) - 1)

\* the lines the user may type into the editor
EditLines ==
    { <<"t">> \o Sep \o <<"a">>,
      <<"t">> \o Sep \o <<"a">> \o Sep \o <<"c">>,
      <<"t">> \o Sep \o <<"b">>,
      <<"t">> \o Sep \o <<"z", "z">>,
      <<"t">> \o Sep \o <<"e", "m", "p", "t", "y">>,
      <<"g", "a", "r", "b", "a", "g", "e">>,
      <<"#", " ", "x">> }

FirstDataLine == Len(HeaderLines) + 1

\* what the user does in the editor: optionally overwrite every data line
\* with one text, then optionally delete, insert or replace one line
Edits ==
    { [all |-> a, op |-> "keep", pos |-> 0, line |-> <<>>] :
        a \in {None, Some(<<"t">> \o Sep \o <<"a">>)} }
    \cup
    { [all |-> a, op |-> "delete", pos |-> p, line |-> <<>>] :
        a \in {None, Some(<<"t">> \o Sep \o <<"a">>)},
        p \in {FirstDataLine, FirstDataLine + DAY_SLOTS - 1} }
    \cup
    { [all |-> a, op |-> "insert", pos |-> FirstDataLine, line |-> l] :
        a \in {None, Some(<<"t">> \o Sep \o <<"a">>)}, l \in EditLines }
    \cup
    { [all |-> a, op |-> "replace", pos |-> FirstDataLine + 1, line |-> l] :
        a \in {None, Some(<<"t">> \o Sep \o <<"a">>)}, l \in EditLines }

ApplyEdit(lines, e) ==
    LET base == IF is_some(e.all)
                THEN [i \in 1..Len(lines) |->
                        IF IsDataLine(lines[i]) THEN unwrap(e.all) ELSE lines[i]]
                ELSE lines
    IN  CASE e.op = "keep"    -> base
          [] e.op = "delete"  -> SubSeq(base, 1, e.pos - 1) \o SubSeq(base, e.pos + 1, Len(base))
          [] e.op = "insert"  -> SubSeq(base, 1, e.pos - 1) \o <<e.line>>
                                    \o SubSeq(base, e.pos, Len(base))
          [] e.op = "replace" -> [base EXCEPT ![e.pos] = e.line]

\* the editor's file imported whatever the exit status of the editor was
reimport_always(actis, ts, edited, exit_ok) == import_timeline(actis, edited)

\* what edit_with_text_editor makes of the Day ts once the editor has ended:
\* ts itself after a non-zero exit status, else the import of the file
\* (None when the import panics)
reimport(actis, ts, edited, exit_ok) ==
    IF ~exit_ok THEN Some(ts) ELSE import_timeline(actis, edited)

\* the 'edit' command: UI::edit_with_text_editor, then the save of main
RunEdit ==
    /\ runs < MaxRuns /\ edits < MaxEdits
    /\ LoadOk
    /\ pc' = "edit"
    /\ runs' = runs + 1 /\ edits' = edits + 1
    /\ \E ld \in {Loaded} : \E exported \in {export_timeline(ld)} :
       \E exit_ok \in BOOLEAN, e \in Edits :
        /\ before' = ld
        /\ io' = [cmd |-> "edit", exit_ok |-> exit_ok, edit |-> e]
        /\ \E edited \in {ApplyEdit(exported, e)} :
           \E imp \in {reimport(activities, ld, edited, exit_ok)} :
            /\ tmpfile' = edited
            /\ IF imp = None
               THEN /\ day' = ld
                    /\ out' = [NoOut EXCEPT !.exit = "panic"]
                    /\ UNCHANGED files
               ELSE /\ day' = unwrap(imp)
                    /\ out' = NoOut
                    /\ Save(unwrap(imp))
    /\ UNCHANGED <<clock, shortcuts, activities, timed>> /\ UNCHANGED slotVars

\* what is left of a run once its process has ended: the files
Forgotten ==
    /\ day' = <<>> /\ before' = <<>> /\ io' = <<>> /\ out' = NoOut /\ tmpfile' = <<>>
    /\ UNCHANGED <<files, activities, runs, edits, timed, shortcuts>>

\* time passes between two runs
Tick ==
    /\ \E c \in Clocks : ClockOrd(c) > ClockOrd(clock) /\ clock' = c
    /\ pc' = "tick"
    /\ Forgotten /\ UNCHANGED slotVars

\* time passes between two runs on the same tracked day
TickSameDay ==
    /\ \E c \in Clocks :
        /\ ClockOrd(c) > ClockOrd(clock)
        /\ today_date(c) = today_date(clock)
        /\ clock' = c
    /\ pc' = "tick"
    /\ Forgotten /\ UNCHANGED slotVars

NoSlot == text = <<>> /\ hm = <<0, 0>> /\ slotRes = None /\ shown = <<>>

InitProg(catalogs) ==
    /\ pc = "idle"
    /\ clock \in { ClockAt(0, s) : s \in NowSlots }
    /\ activities \in catalogs
    /\ files = [d \in FileDates |-> None]
    /\ day = <<>> /\ before = <<>> /\ io = <<>> /\ out = NoOut /\ tmpfile = <<>>
    /\ runs = 0 /\ edits = 0 /\ timed = 0 /\ shortcuts = <<>>
    /\ NoSlot

(***************************************************************************)
(* SpecEdit: the editor round trip and the commands that show a Day        *)
(***************************************************************************)
InitEdit == InitProg({Cat1, Cat2})

NextEdit == RunEdit \/ RunToday \/ RunDay \/ RunYesterday \/ RunLoadAbort \/ Tick

SpecEdit == InitEdit /\ [][NextEdit]_vars


(***************************************************************************)
(* Recording an activity (main.rs): UI::ask_about_activity and its callers *)
(***************************************************************************)
\* UI::get_git_commits, an external collaborator: the lines it may return
GitLines ==
    { <<>>,
      << <<"r", ":", " ", "x">>, <<"r", ":", " ", "y">> >>,
      << <<"r", ":", " ", "u", " ", "-", " ", "v">> >> }

\* what the user may answer to Activity::prompt (first character, if any)
PromptInputs == { Some("0"), Some("b"), Some("?") }

\* what get_input::<usize>() may return for the comment choice
IndexInputs == { None, Some(0), Some(1), Some(3) }

\* ask_about_activity storing the chosen comment in every slot of the range
ask_about_activity_comment_all(ts, start, end, actis, inp, lines, idx) ==
    LET act == prompt(actis, inp)
    IN  IF act = None THEN [ok |-> TRUE, ts |-> ts]
        ELSE IF end > Len(ts) /\ start < end THEN [ok |-> FALSE, ts |-> ts]
        ELSE IF lines # <<>> /\ is_some(idx)
                  /\ unwrap(idx) > 0 /\ unwrap(idx) - 1 < Len(lines)
        THEN [ok |-> TRUE,
              ts |-> [i \in 1..Len(ts) |->
                        IF start <= i - 1 /\ i - 1 < end
                        THEN Some([actis[unwrap(act)] EXCEPT
                                      !.comment = Some(lines[unwrap(idx)])])
                        ELSE ts[i]]]
        ELSE [ok |-> TRUE,
              ts |-> [i \in 1..Len(ts) |->
                        IF start <= i - 1 /\ i - 1 < end
                        THEN Some(actis[unwrap(act)]) ELSE ts[i]]]

\* UI::ask_about_activity on time_slots ts: inp answers the prompt, lines are
\* the git commits found, idx answers "Include as comment"; ok is FALSE when
\* an index is out of bounds or the unwrap of an empty slot panics
ask_about_activity(ts, start, end, actis, inp, lines, idx) ==
    LET act == prompt(actis, inp)
    IN  IF act = None THEN [ok |-> TRUE, ts |-> ts]
        ELSE IF end > Len(ts) /\ start < end THEN [ok |-> FALSE, ts |-> ts]
        ELSE LET filled == [i \in 1..Len(ts) |->
                              IF start <= i - 1 /\ i - 1 < end
                              THEN Some(actis[unwrap(act)]) ELSE ts[i]]
             IN  IF lines # <<>> /\ is_some(idx)
                      /\ unwrap(idx) > 0 /\ unwrap(idx) - 1 < Len(lines)
                 THEN IF start >= Len(ts) \/ filled[start + 1] = None
                      THEN [ok |-> FALSE, ts |-> filled]
                      ELSE [ok |-> TRUE,
                            ts |-> [filled EXCEPT ![start + 1] =
                                      Some([unwrap(filled[start + 1]) EXCEPT
                                               !.comment = Some(lines[unwrap(idx)])])]]
                 ELSE [ok |-> TRUE, ts |-> filled]

\* the end of a run that called ask_about_activity: save unless it panicked
AfterAsk(cmd, texts, ld, start, end, inp, lines, idx) ==
    \E res \in {ask_about_activity(ld, start, end, activities, inp, lines, idx)} :
        /\ before' = ld
        /\ day' = res.ts
        /\ io' = [cmd |-> cmd, texts |-> texts, inp |-> inp, lines |-> lines, idx |-> idx]
        /\ out' = [NoOut EXCEPT !.exit = IF res.ok THEN "ok" ELSE "panic",
                                !.asked = Some(<<start, end>>),
                                !.choice = prompt(activities, inp)]
        /\ IF res.ok THEN Save(res.ts) ELSE UNCHANGED files

\* the inputs that are read: no comment is asked for without an activity or
\* without git lines
InputsUsed(inp, lines, idx) ==
    /\ (prompt(activities, inp) = None => lines = <<>>)
    /\ (lines = <<>> => idx = None)

\* no argument, or an unknown command: UI::ask_about_activity_now
RunRecord ==
    /\ runs < MaxRuns
    /\ LoadOk
    /\ pc' = "record"
    /\ runs' = runs + 1
    /\ \E ld \in {Loaded} :
       \E inp \in PromptInputs, lines \in GitLines, idx \in IndexInputs :
        /\ InputsUsed(inp, lines, idx)
        /\ AfterAsk("record", <<>>, ld, now_or_last_entry(ld, now(clock)), now(clock) + 1,
                    inp, lines, idx)
    /\ tmpfile' = <<>>
    /\ UNCHANGED <<clock, shortcuts, activities, edits, timed>> /\ UNCHANGED slotVars

\* the texts the user may type for a start or end time
TimeTexts ==
    { <<>>, <<"4">>, <<"4", ":", "3", "0">>, <<"3", ":", "4", "5">>, <<"x">>, <<"2", "5">> }

\* the 'activity' command also asking for the activity of an empty time span
valid_span_or_empty(start, end) ==
    is_some(start) /\ is_some(end) /\ unwrap(end) >= unwrap(start)

\* the 'activity' command goes on to ask_about_activity: both times parsed
\* and the end is after the start
valid_span(start, end) ==
    is_some(start) /\ is_some(end) /\ unwrap(end) > unwrap(start)

\* the 'activity' command
RunActivity ==
    /\ runs < MaxRuns /\ timed < MaxTimed
    /\ LoadOk
    /\ pc' = "activity"
    /\ runs' = runs + 1 /\ timed' = timed + 1
    /\ \E ld \in {Loaded} : \E st \in TimeTexts, et \in TimeTexts :
       \E start \in {try_from(st, now(clock))}, end \in {try_from(et, now(clock))} :
        IF valid_span(start, end)
        THEN \E inp \in PromptInputs, lines \in GitLines, idx \in IndexInputs :
                /\ InputsUsed(inp, lines, idx)
                /\ AfterAsk("activity", <<st, et>>, ld, unwrap(start), unwrap(end),
                         inp, lines, idx)
        ELSE /\ (start = None => et = <<>>)
             /\ before' = ld /\ day' = ld
             /\ io' = [cmd |-> "activity", texts |-> <<st, et>>, inp |-> None,
                       lines |-> <<>>, idx |-> None]
             /\ out' = NoOut
             /\ Save(ld)
    /\ tmpfile' = <<>>
    /\ UNCHANGED <<clock, shortcuts, activities, edits>> /\ UNCHANGED slotVars

(***************************************************************************)
(* SpecRecord: the commands that record an activity                        *)
(***************************************************************************)
InitRecord == InitProg({Cat1, Cat2})

NextRecord == RunRecord \/ RunActivity \/ RunToday \/ TickSameDay

SpecRecord == InitRecord /\ [][NextRecord]_vars

(***************************************************************************)
(* HashMap<Activity, V>: a sequence of entries [key, val] in insertion     *)
(* order.  A lookup finds an entry whose key is == to the probe and whose  *)
(* hash leads to the same bucket: always when the hashes are equal, and    *)
(* for unequal hashes only when they happen to collide (h.coll).  h.main   *)
(* selects the Activity of main.rs, whose == and Hash are both derived.    *)
(***************************************************************************)
ActivityEqOf(a, b, h) == IF h.main THEN ActivityEqMain(a, b) ELSE ActivityEq(a, b)

KeyMatches(k, probe, h) ==
    ActivityEqOf(k, probe, h) /\ (ActivityHash(k) = ActivityHash(probe) \/ h.coll)

\* the position of the entry found for probe, 0 when there is none
hash_find(map, probe, h) ==
    IF \E i \in 1..Len(map) : KeyMatches(map[i].key, probe, h)
    THEN CHOOSE i \in 1..Len(map) :
            /\ KeyMatches(map[i].key, probe, h)
            /\ \A j \in 1..(i - 1) : ~KeyMatches(map[j].key, probe, h)
    ELSE 0

\* HashMap::get(probe).unwrap_or(&0)
hash_get_or_0(map, probe, h) ==
    IF hash_find(map, probe, h) = 0 THEN 0
    ELSE map[hash_find(map, probe, h)].val

\* *map.entry(key).or_insert(0) += 1
hash_count(map, key, h) ==
    IF hash_find(map, key, h) = 0 THEN Append(map, [key |-> key, val |-> 1])
    ELSE [map EXCEPT ![hash_find(map, key, h)].val = @ + 1]

\* HashMap::insert(key, v): the value of an entry that is found is replaced
hash_insert(map, key, v, h) ==
    IF hash_find(map, key, h) = 0 THEN Append(map, [key |-> key, val |-> v])
    ELSE [map EXCEPT ![hash_find(map, key, h)].val = v]

\* the fold of the 'json' command over the slots lo+1..hi of a Day, left to
\* right from the map so far (halved, the left half evaluated first)
RECURSIVE tally(_, _, _, _, _)
tally(ts, lo, hi, map, h) ==
    IF hi <= lo THEN map
    ELSE IF hi = lo + 1
    THEN IF is_some(ts[hi]) THEN hash_count(map, unwrap(ts[hi]), h) ELSE map
    ELSE CHOOSE res \in UNION {
             { tally(ts, (lo + hi) \div 2, hi, left, h) } :
             left \in {tally(ts, lo, (lo + hi) \div 2, map, h)} } : TRUE

(***************************************************************************)
(* Statistics over several days (main.rs)                                  *)
(***************************************************************************)
WeekDays == 7
PRODUCTIVE_TARGET == 8
YearDays == 365

\* (0..n).rev().map(|i| Local::now() - Duration::days(i)): calendar dates
DatesBack(n, c) == [k \in 1..n |-> c.date - (n - k)]

FileExists(d) == is_some(FileAt(files, d))

\* multiday_statistics counting a default Day for a date without a file
LoadedDays_all_dates(dates) ==
    [k \in 1..Len(dates) |->
        IF FileExists(dates[k]) THEN from_json(unwrap(FileAt(files, dates[k])))
        ELSE DefaultDay]

\* the Days of the dates whose file exists, in the order of the dates
LoadedDays(dates) ==
    LET present == SelectSeq(dates, FileExists)
    IN  [k \in 1..Len(present) |-> from_json(unwrap(FileAt(files, present[k])))]

RECURSIVE SumSeq(_)
SumSeq(ns) == IF ns = <<>> THEN 0 ELSE Head(ns) + SumSeq(Tail(ns))

\* the slots of ts whose activity is == to the catalog entry
slots_equal_to(ts, activity, h) ==
    Cardinality({ i \in 1..Len(ts) :
                    is_some(ts[i]) /\ ActivityEqOf(unwrap(ts[i]), activity, h) })

\* hours_by_activity of multiday_statistics, in slots: the (activity, sum)
\* pairs of the catalog collected into a HashMap
RECURSIVE collect_hours(_, _, _, _)
collect_hours(actis, days, map, h) ==
    IF actis = <<>> THEN map
    ELSE collect_hours(Tail(actis), days,
            hash_insert(map, Head(actis),
                        SumSeq([k \in 1..Len(days) |-> slots_equal_to(days[k], Head(actis), h)]),
                        h),
            h)

\* the sort key of the breakdown, (hours * -2.) as isize, for hours given in
\* slots: the cast truncates towards zero
sort_key(v) == 0 - ((2 * v) \div SLOTS_PER_HOUR)

\* the permutations of 1..n
Perms(n) == { p \in [1..n -> 1..n] : \A i, j \in 1..n : p[i] = p[j] => i = j }

\* sorted_unstable_by_key over the iteration of a HashMap: any order of the
\* entries of m in which the sort keys do not decrease
sorted_by_key(m) ==
    { [i \in 1..Len(m) |-> m[p[i]]] : p \in
        { q \in Perms(Len(m)) :
            \A i \in 1..(Len(m) - 1) : sort_key(m[q[i]].val) <= sort_key(m[q[i + 1]].val) } }

\* a command that calls UI::multiday_statistics over the last n dates
MultidayCmd(cmd, n) ==
    /\ LoadOk
    /\ pc' = cmd
    /\ runs' = runs + 1
    /\ \E ld \in {Loaded}, coll \in BOOLEAN :
       \E days \in {LoadedDays(DatesBack(n, clock))} :
       \E listed \in sorted_by_key(collect_hours(activities, days, <<>>,
                                                 [main |-> FALSE, coll |-> coll])) :
        /\ before' = ld /\ day' = ld
        /\ io' = [cmd |-> cmd, coll |-> coll]
        /\ out' = [NoOut EXCEPT
                !.days = days,
                !.loaded_dates = SelectSeq(DatesBack(n, clock), FileExists),
                !.ndays = Len(days),
                !.breakdown = listed,
                !.target = PRODUCTIVE_TARGET * Len(days),
                !.total = SumSeq([k \in 1..Len(days) |-> productive_slots(days[k])]),
                !.by_activity =
                    collect_hours(activities, days, <<>>, [main |-> FALSE, coll |-> coll]),
                !.by_activity_main =
                    collect_hours(activities, days, <<>>, [main |-> TRUE, coll |-> coll])]
        /\ Save(ld)
    /\ tmpfile' = <<>>
    /\ UNCHANGED <<clock, shortcuts, activities, edits, timed>> /\ UNCHANGED slotVars

\* the 'week' command: the statistics of the last WeekDays dates
RunWeek ==
    /\ runs < MaxRuns
    /\ MultidayCmd("week", WeekDays)

\* the 'year' command: the statistics of the last YearDays dates
RunYear ==
    /\ runs < MaxRuns
    /\ MultidayCmd("year", YearDays)

\* the 'json' command: per catalog activity, its slots on every loaded day
RunJson ==
    /\ runs < MaxRuns
    /\ LoadOk
    /\ pc' = "json"
    /\ runs' = runs + 1
    /\ \E ld \in {Loaded}, coll \in BOOLEAN :
       \E days \in {LoadedDays(DatesBack(YearDays, clock))} :
       \E h \in {[main |-> FALSE, coll |-> coll]}, h_main \in {[main |-> TRUE, coll |-> coll]} :
       \E day_maps \in {[k \in 1..Len(days) |-> tally(days[k], 0, Len(days[k]), <<>>, h)]},
          day_maps_main \in {[k \in 1..Len(days) |->
                                tally(days[k], 0, Len(days[k]), <<>>, h_main)]} :
        /\ before' = ld /\ day' = ld
        /\ io' = [cmd |-> "json", coll |-> coll]
        /\ out' = [NoOut EXCEPT
                !.days = days,
                !.json = [a \in 1..Len(activities) |->
                            [k \in 1..Len(days) |->
                                hash_get_or_0(day_maps[k], activities[a], h)]],
                !.json_main = [a \in 1..Len(activities) |->
                            [k \in 1..Len(days) |->
                                hash_get_or_0(day_maps_main[k], activities[a], h_main)]]]
        /\ Save(ld)
    /\ tmpfile' = <<>>
    /\ UNCHANGED <<clock, shortcuts, activities, edits, timed>> /\ UNCHANGED slotVars

\* a catalog whose "a" is not productive
Cat3 == <<Activity(<<"a">>, FALSE, None), ActB>>

StatsCatalogs == {Cat1, Cat2, Cat3}

\* the user edits the catalog of the config file between two runs
ChangeCatalog ==
    /\ pc # "idle"
    /\ \E c \in StatsCatalogs : c # activities /\ activities' = c
    /\ pc' = "config"
    /\ day' = <<>> /\ before' = <<>> /\ io' = <<>> /\ out' = NoOut /\ tmpfile' = <<>>
    /\ UNCHANGED <<clock, shortcuts, files, runs, edits, timed>> /\ UNCHANGED slotVars

(***************************************************************************)
(* SpecStats: recording, then the statistics of the recorded days          *)
(***************************************************************************)
InitStats == InitProg(StatsCatalogs)

NextStats == RunRecord \/ RunWeek \/ RunJson \/ ChangeCatalog \/ Tick

SpecStats == InitStats /\ [][NextStats]_vars

(***************************************************************************)
(* Splitting the unrecorded time (main.rs): UI::split                      *)
(***************************************************************************)
\* the split points offered from the start of the unrecorded span itself
possible_slots_from_start(l, cur) == [k \in 1..(cur - l + 1) |-> l + k - 1]

\* (*now_or_last_entry + 1..*Slot::now() + 1).collect()
possible_slots(l, cur) == [k \in 1..(cur - l) |-> l + k]

\* what the user may answer to "Where to split?"
SplitInputs == { None, Some(0), Some(1), Some(DAY_SLOTS) }

\* the answers to one ask_about_activity: the activity, the git lines found
\* and the comment index
NoAnswer == [inp |-> None, lines |-> <<>>, idx |-> None]

SplitAnswers ==
    { [inp |-> Some("0"), lines |-> <<>>, idx |-> None],
      [inp |-> Some("b"), lines |-> << <<"r", ":", " ", "x">> >>, idx |-> Some(1)],
      [inp |-> Some("?"), lines |-> <<>>, idx |-> None] }

\* UI::split on time_slots ts at slot cur.  pick answers "Where to split?",
\* a1 and a2 the two ask_about_activity.  ok is FALSE when the run panics,
\* saved is what self.save() wrote between the two assignments.
UI_split(ts, cur, only_one_split, actis, pick, a1, a2) ==
    LET l        == now_or_last_entry(ts, cur)
        possible == possible_slots(l, cur)
        choice   == IF Len(possible) = 1 THEN Some(0) ELSE pick
        nothing  == [ok |-> TRUE, ts |-> ts, saved |-> None, offered |-> possible,
                     point |-> None, asks |-> <<>>, choices |-> <<>>]
    IN  IF possible = <<>> THEN nothing
        ELSE IF choice = None THEN nothing
        ELSE IF unwrap(choice) >= Len(possible) THEN [nothing EXCEPT !.ok = FALSE]
        ELSE LET pt == possible[unwrap(choice) + 1]
                 r1 == ask_about_activity(ts, l, pt, actis, a1.inp, a1.lines, a1.idx)
                 r2 == ask_about_activity(r1.ts, pt, next(cur), actis,
                                          a2.inp, a2.lines, a2.idx)
             IN  IF ~r1.ok
                 THEN [nothing EXCEPT !.ok = FALSE, !.point = Some(pt),
                                      !.asks = << <<l, pt>> >>,
                                      !.choices = << prompt(actis, a1.inp) >>]
                 ELSE IF only_one_split
                 THEN [ok |-> TRUE, ts |-> r1.ts, saved |-> None, offered |-> possible,
                       point |-> Some(pt), asks |-> << <<l, pt>> >>,
                       choices |-> << prompt(actis, a1.inp) >>]
                 ELSE [ok |-> r2.ok, ts |-> r2.ts, saved |-> Some(r1.ts),
                       offered |-> possible, point |-> Some(pt),
                       asks |-> << <<l, pt>>, <<pt, next(cur)>> >>,
                       choices |-> << prompt(actis, a1.inp), prompt(actis, a2.inp) >>]

\* the answers that are read: the split point only when several are offered,
\* the second activity only by 'split' with a split point
SplitInputsUsed(ld, only_one_split, pick, a1, a2) ==
    LET possible == possible_slots(now_or_last_entry(ld, now(clock)), now(clock))
        chosen   == \/ Len(possible) = 1
                    \/ (Len(possible) > 1 /\ is_some(pick) /\ unwrap(pick) < Len(possible))
    IN  /\ (Len(possible) <= 1 => pick = None)
        /\ (~chosen => a1 = NoAnswer)
        /\ (chosen => a1 # NoAnswer)
        /\ ((~chosen \/ only_one_split) => a2 = NoAnswer)
        /\ ((chosen /\ ~only_one_split) => a2 # NoAnswer)

\* the 'split' (only_one_split FALSE) and 'until' (TRUE) commands
RunSplitCmd(cmd, only_one_split) ==
    /\ LoadOk
    /\ pc' = cmd
    /\ runs' = runs + 1
    /\ \E ld \in {Loaded} :
       \E pick \in SplitInputs, a1 \in SplitAnswers \cup {NoAnswer},
          a2 \in SplitAnswers \cup {NoAnswer} :
        /\ SplitInputsUsed(ld, only_one_split, pick, a1, a2)
        /\ \E res \in {UI_split(ld, now(clock), only_one_split, activities, pick, a1, a2)} :
            /\ before' = ld
            /\ day' = res.ts
            /\ io' = [cmd |-> cmd, pick |-> pick, a1 |-> a1, a2 |-> a2]
            /\ out' = [NoOut EXCEPT !.exit = IF res.ok THEN "ok" ELSE "panic",
                                    !.offered = res.offered,
                                    !.point = res.point,
                                    !.asks = res.asks,
                                    !.choices = res.choices]
            /\ IF res.ok THEN Save(res.ts)
               ELSE IF is_some(res.saved) THEN Save(unwrap(res.saved))
               ELSE UNCHANGED files
    /\ tmpfile' = <<>>
    /\ UNCHANGED <<clock, shortcuts, activities, edits, timed>> /\ UNCHANGED slotVars

RunSplit ==
    /\ runs < MaxRuns
    /\ RunSplitCmd("split", FALSE)

RunUntil ==
    /\ runs < MaxRuns
    /\ RunSplitCmd("until", TRUE)

(***************************************************************************)
(* SpecSplit: recording, then splitting the unrecorded time                *)
(***************************************************************************)
InitSplit == InitProg({Cat1, Cat2})

NextSplit == RunRecord \/ RunSplit \/ RunUntil \/ TickSameDay

SpecSplit == InitSplit /\ [][NextSplit]_vars

(***************************************************************************)
(* SpecRound: recording with comments, then the editor                     *)
(***************************************************************************)
InitRound == InitProg({Cat1, Cat2})

NextRound == RunRecord \/ RunEdit \/ TickSameDay

SpecRound == InitRound /\ [][NextRound]_vars

(***************************************************************************)
(* The commands that only print, and the 'comment' command (main.rs)       *)
(***************************************************************************)
\* the 'help' and 'path' commands: they print and fall through to the save
RunInfo ==
    /\ runs < MaxRuns
    /\ LoadOk
    /\ \E cmd \in {"help", "path"} :
        /\ pc' = cmd
        /\ io' = [cmd |-> cmd]
    /\ runs' = runs + 1
    /\ before' = Loaded /\ day' = Loaded
    /\ out' = NoOut
    /\ Save(Loaded)
    /\ tmpfile' = <<>>
    /\ UNCHANGED <<clock, shortcuts, activities, edits, timed>> /\ UNCHANGED slotVars

\* what get_input::<String>() may return for the comment
CommentInputs == { None, Some(<<"k">>) }

\* UI::add_comment_to_last_activity: the comment of the last entry before
\* cur becomes the input (None included); nothing when there is no entry
add_comment_to_last_activity(ts, cur, c) ==
    IF is_some(entry_before_now(ts, cur))
    THEN [ts EXCEPT ![unwrap(entry_before_now(ts, cur)) + 1] =
                Some([unwrap(@) EXCEPT !.comment = c])]
    ELSE ts

\* the 'comment' command
RunComment ==
    /\ runs < MaxRuns
    /\ LoadOk
    /\ pc' = "comment"
    /\ runs' = runs + 1
    /\ \E ld \in {Loaded}, c \in CommentInputs :
        /\ (entry_before_now(ld, now(clock)) = None => c = None)
        /\ before' = ld
        /\ day' = add_comment_to_last_activity(ld, now(clock), c)
        /\ io' = [cmd |-> "comment", comment |-> c]
        /\ out' = NoOut
        /\ Save(add_comment_to_last_activity(ld, now(clock), c))
    /\ tmpfile' = <<>>
    /\ UNCHANGED <<clock, shortcuts, activities, edits, timed>> /\ UNCHANGED slotVars

(***************************************************************************)
(* SpecSave: the commands that print, record and comment, over the days    *)
(***************************************************************************)
InitSave == InitProg({Cat1, Cat2})

NextSave ==
    RunInfo \/ RunToday \/ RunWeek \/ RunYear \/ RunJson \/ RunRecord \/ RunComment
        \/ Tick

SpecSave == InitSave /\ [][NextSave]_vars

(***************************************************************************)
(* One Settings object: its catalog, its cache of the shortcut table, and  *)
(* the calls of get_shortcuts, get_shortcut and Activity::prompt on it     *)
(***************************************************************************)
\* the names of the catalogs: letters, a leading digit, a leading symbol
ShortcutNames ==
    { <<>>, <<"a">>, <<"a", "b">>, <<"b", "a">>, <<"1", "a">>, <<"-", "a">> }

Named(n) == Activity(n, TRUE, None)

ShortcutCatalogs ==
    { <<>> }
    \cup { <<Named(n)>> : n \in ShortcutNames }
    \cup { <<Named(n), Named(m)>> : n \in ShortcutNames, m \in ShortcutNames }
    \cup { <<Named(<<"a", "b">>), Named(<<"a">>), Named(<<"b">>)>>,
           <<Named(<<"a">>), Named(<<"b">>), Named(<<"1", "a">>)>> }

\* the lines the user may enter at the prompt; None: stdin is closed
PromptLines ==
    { None, Some(<<>>), Some(<<"a">>), Some(<<"b">>), Some(<<"1">>), Some(<<"-">>),
      Some(<<" ", "a">>) }

\* get_input::<String>()?.trim().chars().next()
first_trimmed(line) ==
    IF line = None THEN None
    ELSE IF \E i \in 1..Len(unwrap(line)) : unwrap(line)[i] # " "
    THEN Some(unwrap(line)[CHOOSE i \in 1..Len(unwrap(line)) :
                  /\ unwrap(line)[i] # " "
                  /\ \A j \in 1..(i - 1) : unwrap(line)[j] = " "])
    ELSE None

\* a get_shortcuts that derives the table from the catalog at every call
cached_shortcuts_recomputed(actis, cache) == Some(get_shortcuts(actis))

\* the cache after Settings::get_shortcuts (the call returns its content)
cached_shortcuts(actis, cache) ==
    IF cache = None THEN Some(get_shortcuts(actis)) ELSE cache

\* self.activities.iter().position(|a| a == activity), from 1
position(actis, activity) ==
    IF \E i \in 1..Len(actis) : ActivityEq(actis[i], activity)
    THEN Some(CHOOSE i \in 1..Len(actis) :
              /\ ActivityEq(actis[i], activity)
              /\ \A j \in 1..(i - 1) : ~ActivityEq(actis[j], activity))
    ELSE None

\* Activity::prompt indexes out of bounds: shortcuts[i] while printing the
\* menu, or settings.activities[i] for the position of the shortcut
prompt_panics(actis, table, inp) ==
    \/ Len(table) < Len(actis)
    \/ /\ is_some(prompt_table(actis, table, inp))
       /\ unwrap(prompt_table(actis, table, inp)) > Len(actis)

NoRun ==
    /\ day' = <<>> /\ before' = <<>> /\ tmpfile' = <<>>
    /\ UNCHANGED <<clock, files, runs, edits, timed>> /\ UNCHANGED slotVars

\* settings.get_shortcuts()
CallGetShortcuts ==
    /\ pc' = "get_shortcuts"
    /\ io' = [cmd |-> "get_shortcuts", first |-> (shortcuts = None)]
    /\ shortcuts' = cached_shortcuts(activities, shortcuts)
    /\ out' = [NoOut EXCEPT !.table = unwrap(cached_shortcuts(activities, shortcuts))]
    /\ UNCHANGED activities /\ NoRun

\* settings.get_shortcut(&activity)
CallGetShortcut ==
    /\ pc' = "get_shortcut"
    /\ \E n \in ShortcutNames :
       \E index \in {position(activities, Named(n))} :
        /\ io' = [cmd |-> "get_shortcut", activity |-> Named(n), index |-> index]
        /\ IF index = None
           THEN /\ out' = NoOut
                /\ UNCHANGED shortcuts
           ELSE \E table \in {unwrap(cached_shortcuts(activities, shortcuts))} :
                /\ shortcuts' = cached_shortcuts(activities, shortcuts)
                /\ IF unwrap(index) > Len(table)
                   THEN out' = [NoOut EXCEPT !.exit = "panic", !.table = table]
                   ELSE out' = [NoOut EXCEPT !.table = table,
                                            !.shortcut = table[unwrap(index)]]
    /\ UNCHANGED activities /\ NoRun

\* Activity::prompt(&settings)
CallPrompt ==
    /\ pc' = "prompt"
    /\ \E line \in PromptLines :
       \E table \in {unwrap(cached_shortcuts(activities, shortcuts))} :
        /\ io' = [cmd |-> "prompt", line |-> line, first |-> (shortcuts = None)]
        /\ shortcuts' = cached_shortcuts(activities, shortcuts)
        /\ IF prompt_panics(activities, table, first_trimmed(line))
           THEN out' = [NoOut EXCEPT !.exit = "panic", !.table = table]
           ELSE out' = [NoOut EXCEPT
                    !.table = table,
                    !.choice = prompt_table(activities, table, first_trimmed(line))]
    /\ UNCHANGED activities /\ NoRun

\* the holder of the Settings assigns to its pub field activities
SetActivities ==
    /\ pc' = "set_activities"
    /\ \E c \in ShortcutCatalogs : c # activities /\ activities' = c
    /\ io' = <<>> /\ out' = NoOut
    /\ UNCHANGED shortcuts /\ NoRun

(***************************************************************************)
(* SpecShortcuts: the calls on one Settings object, its catalog changing   *)
(***************************************************************************)
InitShortcuts == InitProg(ShortcutCatalogs) /\ clock = ClockAt(0, 0)

NextShortcuts == CallGetShortcuts \/ CallGetShortcut \/ CallPrompt \/ SetActivities

SpecShortcuts == InitShortcuts /\ [][NextShortcuts]_vars

(***************************************************************************)
(* SpecSlot: the Slot functions applied to bounded inputs                  *)
(***************************************************************************)
SlotChars == {"0", "1", "2", "3", "4", "5", "6", "9", ":", "n", "+"}

\* the texts of tests::test_slot_from_string and some boundary cases
ExampleTexts ==
    { <<"1", "8", ":", "0", "0">>, <<"1", "8", ":">>, <<"1", "8">>,
      <<"1", "8", ":", "3">>, <<"1", "8", ":", "0", "3">>,
      <<"1", "8", ":", "3", "0">>, <<"1", "8", ":", "5", "9">>,
      <<":">>, <<>>, <<"5", "0", "0", ":">>, <<":", "3", "0">>,
      <<"n", "o", "w">>, <<"n">>, <<"n", ":">>,
      <<"2", "3", ":", "5", "9">>, <<"2", "3", ":", "6", "0">>,
      <<"2", "4", ":", "0", "0">>, <<"0", "0", ":", "0", "0">>,
      <<"0", "3", ":", "4", "5">>, <<"0", "4", ":", "0", "0">>,
      <<"1", "8", ":", "x">>, <<"1", "8", " ">>, <<"-", "1">>,
      <<"1", ":", "2", ":", "3">>, <<"n", "o", "w", ":">> }

SlotTexts ==
    ExampleTexts \cup UNION { [1..k -> SlotChars] : k \in 0..MaxTextLen }

SlotClocks ==
    { [date |-> 0, hour |-> 4,  minute |-> 0],
      [date |-> 0, hour |-> 12, minute |-> 7],
      [date |-> 0, hour |-> 3,  minute |-> 59] }

NoProg ==
    /\ files = <<>> /\ day = <<>> /\ before = <<>>
    /\ io = <<>> /\ out = <<>> /\ tmpfile = <<>>
    /\ activities = <<>> /\ runs = 0 /\ edits = 0 /\ timed = 0 /\ shortcuts = <<>>

InitSlot ==
    /\ pc = "idle"
    /\ clock \in SlotClocks
    /\ text = <<>> /\ hm = <<0, 0>> /\ slotRes = None /\ shown = <<>>
    /\ NoProg

\* Slot::try_from(text), and Display of the Slot when it is Ok
TryFrom ==
    /\ pc = "idle"
    /\ \E t \in SlotTexts :
        /\ text' = t
        /\ slotRes' = try_from(t, now(clock))
        /\ shown' = IF is_some(try_from(t, now(clock)))
                    THEN Display(unwrap(try_from(t, now(clock)))) ELSE <<>>
    /\ pc' = "parsed"
    /\ UNCHANGED <<clock, hm>> /\ UNCHANGED progVars

\* Slot::from_time(hour, minute) followed by Display
FromTime ==
    /\ pc = "idle"
    /\ \E h \in 0..23, m \in 0..59 :
        /\ hm' = <<h, m>>
        /\ slotRes' = Some(from_time(h, m))
        /\ shown' = Display(from_time(h, m))
    /\ pc' = "converted"
    /\ UNCHANGED <<clock, text>> /\ UNCHANGED progVars

\* Display of Slot(s), also of the exclusive range end DAY_SLOTS
ShowSlot ==
    /\ pc = "idle"
    /\ \E s \in 0..DAY_SLOTS :
        /\ slotRes' = Some(s)
        /\ shown' = Display(s)
    /\ pc' = "shown"
    /\ UNCHANGED <<clock, text, hm>> /\ UNCHANGED progVars

NextSlot == TryFrom \/ FromTime \/ ShowSlot

SpecSlot == InitSlot /\ [][NextSlot]_vars

(***************************************************************************)
(* Claims about Slot, checked under SpecSlot                               *)
(***************************************************************************)
\* the text before the first ':' (all of it when there is none)
RefHourLen(t) ==
    LET free == { k \in 0..Len(t) : \A j \in 1..k : t[j] # ":" }
    IN  CHOOSE k \in free : \A j \in free : j <= k

RefTryFrom(t, cur) ==
    LET p        == RefHourLen(t)
        hourText == SubSeq(t, 1, p)
        minText  == SubSeq(t, p + 2, Len(t))
        h        == parse_usize(hourText)
        m        == IF p < Len(t) /\ parse_usize(minText) # None
                    THEN unwrap(parse_usize(minText)) ELSE 0
    IN  IF t \in { <<"n", "o", "w">>, <<"n">>, <<>> } THEN Some(cur)
        ELSE IF h = None THEN None
        ELSE IF unwrap(h) > 23 \/ m > 59 THEN None
        ELSE Some(from_time(unwrap(h), m))

Same18Texts ==
    { <<"1", "8", ":", "0", "0">>, <<"1", "8", ":">>, <<"1", "8">>,
      <<"1", "8", ":", "3">>, <<"1", "8", ":", "0", "3">> }

ErrorTexts == { <<":">>, <<"5", "0", "0", ":">>, <<":", "3", "0">>, <<"n", ":">> }

\* C8: Slot::try_from agrees with the reference on every text: "now", "n"
\* and "" give the current Slot; otherwise the text before the first ':' must
\* parse as the hour, the text after it is the minute (0 when missing or
\* unparsable); hour > 23 or minute > 59 is an error; everything else is
\* from_time(hour, minute).  "18:00", "18:", "18", "18:3", "18:03" give the
\* same Slot; ":", "500:", ":30", "n:" are errors.
C8_TryFromAgreesWithReference ==
    pc = "parsed" =>
        /\ slotRes = RefTryFrom(text, now(clock))
        /\ text \in Same18Texts => slotRes = Some(18 * SLOTS_PER_HOUR - DAY_START)
        /\ text \in ErrorTexts => slotRes = None
        /\ text \in { <<"n", "o", "w">>, <<"n">>, <<>> } => slotRes = Some(now(clock))

C8_Witness ==
    /\ pc = "parsed"
    /\ text = <<"1", "8", ":", "3">>
    /\ slotRes = Some(56)
    /\ shown = <<"1", "8", ":", "0", "0">>

\* C9: "18:30" and "18:59" give the same Slot, the one immediately after the
\* Slot of "18:00" (index of "18:00" plus 1).
C9_HalfHourIsNextSlot ==
    (pc = "parsed" /\ text \in { <<"1", "8", ":", "3", "0">>, <<"1", "8", ":", "5", "9">> })
        => slotRes = Some(unwrap(try_from(<<"1", "8", ":", "0", "0">>, now(clock))) + 1)

\* "HH" of a number below 100
TwoDigits(n) == <<Digits[(n \div 10) + 1], Digits[(n % 10) + 1]>>

\* C10: for hour in 0..23 and minute in 0..59, from_time(hour, minute) has an
\* index in [0, DAY_SLOTS) and displays as the zero-padded "HH:MM" of the same
\* hour with the minute rounded down to the slot boundary.
C10_FromTimeDisplay ==
    pc = "converted" =>
        /\ unwrap(slotRes) \in 0..(DAY_SLOTS - 1)
        /\ shown = TwoDigits(hm[1]) \o <<":">>
                     \o TwoDigits(hm[2] - (hm[2] % (60 \div SLOTS_PER_HOUR)))

C10_Witness ==
    /\ pc = "converted"
    /\ hm = <<13, 47>>
    /\ shown = <<"1", "3", ":", "4", "5">>

(***************************************************************************)
(* Claims about the timeline editor and the shown Days, under SpecEdit     *)
(***************************************************************************)
ShowPcs == {"today", "day", "yesterday"}

\* the Day whose runs the last 'today', 'day' or 'yesterday' run printed
ShownDay ==
    IF pc = "today" THEN before ELSE from_json(unwrap(FileAt(files, io.date)))

\* rs is a chain of non-empty runs from slot 0 to slot n
RunsCover(rs, n) ==
    /\ rs # <<>>
    /\ rs[1][1] = 0
    /\ rs[Len(rs)][2] = n
    /\ \A k \in 1..Len(rs) : rs[k][1] < rs[k][2]
    /\ \A k \in 1..(Len(rs) - 1) : rs[k + 1][1] = rs[k][2]

\* every slot of ts holds the same activity with the same comment
AllSame(ts) == \A i \in 1..Len(ts) : ts[i] = ts[1]

\* C1: slots_collapsed emits one tuple per maximal run and the runs cover
\* [0, DAY_SLOTS) exactly once; a Day whose slots all hold the same activity
\* and comment yields the single run (0, DAY_SLOTS, activity).
C1_CollapsedRunsCoverDay ==
    (pc \in ShowPcs /\ out.exit = "ok" /\ out.shown_len = DAY_SLOTS) =>
        /\ RunsCover(out.collapsed, DAY_SLOTS)
        /\ AllSame(ShownDay) => out.collapsed = << <<0, DAY_SLOTS, ShownDay[1]>> >>

\* the data lines of the file the editor left behind
DataLines == SelectSeq(tmpfile, IsDataLine)

\* today's file, as the Day it holds
TodayFile == from_json(unwrap(FileAt(files, today_date(clock))))

\* C2: when the edited text does not have exactly DAY_SLOTS data lines the
\* import is rejected as an error and the Day, in memory and in today's file,
\* still has DAY_SLOTS slots.
C2_ImportRejectsWrongLineCount ==
    (pc = "edit" /\ io.exit_ok /\ Len(DataLines) # DAY_SLOTS) =>
        /\ out.exit # "ok"
        /\ Len(day) = DAY_SLOTS
        /\ is_some(FileAt(files, today_date(clock))) => Len(TodayFile) = DAY_SLOTS

\* C3: every Day loaded from a file has DAY_SLOTS slots before it is used: on
\* every load path a file of another length is a fatal abort.
C3_LoadedDayHasDaySlots ==
    (pc \in ShowPcs /\ out.exit = "ok") => out.shown_len = DAY_SLOTS

\* slots i and i+1 (from 0) of ts hold the same name with different comments
CommentChange(ts, i) ==
    /\ is_some(ts[i + 1]) /\ is_some(ts[i + 2])
    /\ unwrap(ts[i + 1]).name = unwrap(ts[i + 2]).name
    /\ unwrap(ts[i + 1]).comment # unwrap(ts[i + 2]).comment

\* the runs rs have a boundary between slots i and i+1
BoundaryAfter(rs, i) ==
    /\ \E k \in 1..Len(rs) : rs[k][1] <= i /\ rs[k][2] = i + 1
    /\ ~ \E k \in 1..Len(rs) : rs[k][1] <= i /\ rs[k][2] > i + 1

\* C5: slots_collapsed (day.rs and the copy in main.rs) puts a run boundary
\* between adjacent slots with the same name and different comments: the run
\* containing slot i ends at i+1 and no run contains both slots.
C5_CommentChangeSplitsRun ==
    (pc \in ShowPcs /\ out.exit = "ok") =>
        \A i \in 0..(Len(ShownDay) - 2) :
            CommentChange(ShownDay, i) =>
                /\ BoundaryAfter(out.collapsed, i)
                /\ BoundaryAfter(out.collapsed_main, i)

C5_Witness ==
    /\ pc = "today" /\ out.exit = "ok"
    /\ CommentChange(before, 0)
    /\ unwrap(before[1]).comment = None
    /\ unwrap(before[2]).comment = Some(<<"c">>)
    /\ out.collapsed[1][1] = 0 /\ out.collapsed[1][2] = 1
    /\ out.collapsed[2][1] = 1 /\ out.collapsed[2][2] = 2

\* the catalog indices whose entry has name n
NamedEntries(n) == { k \in 1..Len(activities) : activities[k].name = n }

\* the slot a data line stands for: empty when its name field is not in the
\* catalog, else name and productive flag of the first entry of that name,
\* with the line's comment field (if any) as the comment
SlotOfLine(l) ==
    LET fields == split(l, Sep)
        first  == CHOOSE k \in NamedEntries(fields[2]) :
                      \A j \in NamedEntries(fields[2]) : k <= j
    IN  IF NamedEntries(fields[2]) = {} THEN None
        ELSE Some(Activity(activities[first].name, activities[first].productive,
                           IF Len(fields) >= 3 THEN Some(fields[3]) ELSE None))

AskedAndChosen ==
    pc \in {"record", "activity"} /\ is_some(out.asked) /\ is_some(out.choice)

\* the comment the user picked from the git lines, None when none was picked
PickedComment ==
    IF io.lines # <<>> /\ is_some(io.idx) /\ unwrap(io.idx) \in 1..Len(io.lines)
    THEN Some(io.lines[unwrap(io.idx)])
    ELSE None

\* C7: ask_about_activity(start, end) with a recognised choice overwrites
\* every slot of [start, end) with a clone of the chosen catalog activity and
\* leaves the other slots unchanged; a comment chosen afterwards is stored in
\* the slot at start only.
C7_AskOverwritesRange ==
    AskedAndChosen =>
        LET start  == unwrap(out.asked)[1]
            end    == unwrap(out.asked)[2]
            chosen == activities[unwrap(out.choice)]
        IN  /\ out.exit = "ok"
            /\ Len(day) = Len(before)
            /\ \A i \in 0..(Len(day) - 1) :
                IF i < start \/ i >= end THEN day[i + 1] = before[i + 1]
                ELSE IF i = start /\ is_some(PickedComment)
                THEN day[i + 1] = Some([chosen EXCEPT !.comment = PickedComment])
                ELSE day[i + 1] = Some(chosen)

C7_Witness ==
    /\ AskedAndChosen /\ pc = "activity"
    /\ out.asked = Some(<<0, 2>>)
    /\ is_some(before[2])
    /\ day[1] = Some([ActA EXCEPT !.comment = Some(<<"r", ":", " ", "x">>)])
    /\ day[2] = Some(ActA)
    /\ day[3] = None


(***************************************************************************)
(* Claims about the statistics (SpecStats)                                 *)
(***************************************************************************)
\* the slots of a Day whose activity has the given name
NameSlots(ts, name) ==
    Cardinality({ i \in 1..Len(ts) : is_some(ts[i]) /\ unwrap(ts[i]).name = name })

\* in the totals m every catalog entry has a total, and every total is the
\* number of slots of the loaded days that carry the name of its key
TotalsByName(m) ==
    /\ \A a \in 1..Len(activities) :
        \E e \in 1..Len(m) : m[e].key.name = activities[a].name
    /\ \A e \in 1..Len(m) :
        m[e].val = SumSeq([k \in 1..Len(out.days) |-> NameSlots(out.days[k], m[e].key.name)])

\* the 'week' totals with the Activity of activity.rs
WeekCountsByName == pc = "week" => TotalsByName(out.by_activity)

\* the 'week' totals with the Activity of main.rs
WeekCountsByNameMain == pc = "week" => TotalsByName(out.by_activity_main)

\* the 'json' values: for every catalog entry and loaded day, the number of
\* slots of that day that carry the entry's name
JsonCountsByName ==
    pc = "json" =>
        \A a \in 1..Len(activities) : \A k \in 1..Len(out.days) :
            /\ out.json[a][k] = NameSlots(out.days[k], activities[a].name)
            /\ out.json_main[a][k] = NameSlots(out.days[k], activities[a].name)

\* C4: activities are counted by name alone: the per-activity totals of
\* multiday_statistics and the per-day values of the json export both equal
\* the number of slots whose activity name is the catalog entry's name (the
\* printed hours are these counts divided by SLOTS_PER_HOUR), also when the
\* stored clone carries a comment or another productive flag, because a
\* hash-map lookup by the catalog entry finds the tally of a same-name clone.
C4_CountedByNameAlone ==
    WeekCountsByName /\ WeekCountsByNameMain /\ JsonCountsByName

(***************************************************************************)
(* Claims about the displayed slots (SpecSlot)                             *)
(***************************************************************************)
\* Slot::now() of the test build: a fixed slot
now_test == 16

\* C11: with SLOTS_PER_HOUR = 4 and DAY_START = 16, Display renders Slot(0)
\* as "04:00", Slot(47) as "03:30" and the test clock's Slot(16) as "12:00".
C11_DisplayOfTestSlots ==
    (pc = "shown" /\ is_some(slotRes)) =>
        /\ unwrap(slotRes) = 0 => shown = <<"0", "4", ":", "0", "0">>
        /\ unwrap(slotRes) = 47 => shown = <<"0", "3", ":", "3", "0">>
        /\ unwrap(slotRes) = now_test => shown = <<"1", "2", ":", "0", "0">>

(***************************************************************************)
(* Claims about the start of an unprompted recording (SpecRecord)          *)
(***************************************************************************)
\* the indices below cur of the non-empty slots of ts
EntriesBelow(ts, cur) == { i \in 0..(cur - 1) : i < Len(ts) /\ is_some(ts[i + 1]) }

\* C12: now_or_last_entry is i + 1 for the greatest non-empty index i strictly
\* below the current slot and now() when there is none (entries at or after
\* the current slot are ignored); on an all-empty Day first_non_empty is None
\* and the result is now(); the result never exceeds now().
C12_NowOrLastEntry ==
    (pc = "record" /\ is_some(out.asked)) =>
        LET cur   == now(clock)
            start == unwrap(out.asked)[1]
            below == EntriesBelow(before, cur)
        IN  /\ below = {} => start = cur
            /\ below # {} =>
                  \E i \in below : (\A j \in below : j <= i) /\ start = i + 1
            /\ start <= cur
            /\ (\A i \in 1..Len(before) : before[i] = None) =>
                  first_non_empty(before) = None /\ start = cur

C12_Witness ==
    /\ pc = "record"
    /\ now(clock) = DAY_SLOTS - 1
    /\ is_some(before[1]) /\ is_some(before[2]) /\ before[3] = None
    /\ out.asked = Some(<<2, DAY_SLOTS>>)

(***************************************************************************)
(* Claims about the aggregated statistics (SpecStats)                      *)
(***************************************************************************)
\* the productive slots of the file of date d, 0 when there is no file
ProductiveOn(d) ==
    IF is_some(FileAt(files, d))
    THEN productive_slots(from_json(unwrap(FileAt(files, d)))) ELSE 0

\* the dates of the last WeekDays days that have a file
WeekFiles == { k \in 1..WeekDays : is_some(FileAt(files, DatesBack(WeekDays, clock)[k])) }

\* C13: multiday_statistics skips a date without a file without error; the
\* total of productive hours (in slots) is the sum over exactly the days
\* whose file exists when the run starts, and the day count of the target
\* (PRODUCTIVE_TARGET x count) is the number of files loaded, not the number
\* of dates requested.
C13_TotalsOverPresentFiles ==
    [][pc' = "week" =>
        /\ out'.exit = "ok"
        /\ out'.ndays = Cardinality(WeekFiles)
        /\ out'.target = PRODUCTIVE_TARGET * Cardinality(WeekFiles)
        /\ out'.total =
              SumSeq([k \in 1..WeekDays |-> ProductiveOn(DatesBack(WeekDays, clock)[k])])
      ]_vars

\* a week with one file present, six dates without a file, one productive slot
C13_Witness ==
    /\ pc = "week" /\ out.exit = "ok"
    /\ out.ndays = 1 /\ out.target = PRODUCTIVE_TARGET
    /\ out.total = 1

\* C14: the per-activity breakdown of multiday_statistics is printed in
\* descending order of hours (slot counts divided by SLOTS_PER_HOUR): an
\* activity printed before another has at least as many hours.
C14_BreakdownDescending ==
    pc = "week" =>
        \A i, j \in 1..Len(out.breakdown) :
            i < j => out.breakdown[i].val >= out.breakdown[j].val

(***************************************************************************)
(* Claims about an aborted edit (SpecEdit)                                 *)
(***************************************************************************)
\* C15: when the editor exits with a non-zero status the edited file is not
\* re-imported and the in-memory Day is exactly what it was before the edit.
C15_FailedEditorKeepsDay ==
    (pc = "edit" /\ ~io.exit_ok) => (out.exit = "ok" /\ day = before)

\* the editor replaced the second data line of an empty slot by an activity
\* and then failed
C15_Witness ==
    /\ pc = "edit" /\ ~io.exit_ok
    /\ io.edit.op = "replace" /\ io.edit.line = <<"t">> \o Sep \o <<"a">>
    /\ before[2] = None
    /\ tmpfile[FirstDataLine + 1] = <<"t">> \o Sep \o <<"a">>
    /\ day = before

(***************************************************************************)
(* Claims about the errors of the 'activity' command (SpecRecord)          *)
(***************************************************************************)
\* the start and end the last 'activity' run was given, by the reference
\* reading of the time texts
GivenStart == RefTryFrom(io.texts[1], now(clock))
GivenEnd == RefTryFrom(io.texts[2], now(clock))

\* the last 'activity' run had a time text that does not parse, an end that
\* is not after the start, or an activity choice that was not recognised
ActivityAbandoned ==
    /\ pc = "activity"
    /\ \/ GivenStart = None
       \/ GivenEnd = None
       \/ unwrap(GivenEnd) <= unwrap(GivenStart)
       \/ prompt(activities, io.inp) = None

\* C16: in the 'activity' command a time text that fails to parse, an end
\* <= start or an unrecognised activity choice abandons only that
\* sub-operation: no slot changes, nothing panics and the run ends normally
\* with the save of the unchanged Day.
C16_ActivityErrorsAreLocal ==
    ActivityAbandoned =>
        /\ out.exit = "ok"
        /\ day = before
        /\ FileAt(files, today_date(clock)) = Some(to_json(before))

\* an end equal to the start on a Day that has an entry
C16_Witness ==
    /\ ActivityAbandoned
    /\ io.texts = << <<"4">>, <<"4">> >>
    /\ is_some(before[1])
    /\ day = before

\* an unparsable end time
C16_WitnessParse ==
    /\ ActivityAbandoned
    /\ io.texts = << <<"4">>, <<"2", "5">> >>
    /\ day = before

(***************************************************************************)
(* Claims about unprompted recording (SpecRecord, while no 'activity'      *)
(* command has run: timed = 0)                                             *)
(***************************************************************************)
\* the indices of the non-empty slots of ts
NonEmpty(ts) == { i \in 0..(Len(ts) - 1) : is_some(ts[i + 1]) }

\* the non-empty slots of ts are one block: each is followed by a non-empty
\* slot or is the last of them
OneBlock(ts) ==
    \A i \in NonEmpty(ts) : (i + 1) \in NonEmpty(ts) \/ \A k \in NonEmpty(ts) : k <= i

\* the least and the greatest element of a non-empty set of numbers
Least(S) == CHOOSE x \in S : \A y \in S : x <= y
Greatest(S) == CHOOSE x \in S : \A y \in S : y <= x

\* C17: from an all-empty Day, default recordings at non-decreasing current
\* slots leave no gaps: the non-empty slots are one block from the slot of
\* the first successful recording through that of the last; a successful
\* recording writes exactly the slots now_or_last_entry..now, a non-empty
\* range with 0 <= start <= now < DAY_SLOTS, and changes no slot at or before
\* the last non-empty slot that precedes now; an unrecognised choice changes
\* nothing.
C17_RecordingLeavesNoGaps ==
    timed = 0 =>
        /\ OneBlock(Loaded)
        /\ (pc = "record" /\ out.choice = None) => (out.exit = "ok" /\ day = before)
        /\ (pc = "record" /\ is_some(out.choice)) =>
              LET cur   == now(clock)
                  start == unwrap(out.asked)[1]
                  end   == unwrap(out.asked)[2]
              IN  /\ out.exit = "ok"
                  /\ 0 <= start /\ start <= cur /\ cur < DAY_SLOTS /\ end = cur + 1
                  /\ Len(day) = DAY_SLOTS
                  /\ \A i \in 0..(DAY_SLOTS - 1) :
                        IF start <= i /\ i <= cur THEN is_some(day[i + 1])
                        ELSE day[i + 1] = before[i + 1]
                  /\ \A i \in 0..(cur - 1) :
                        (\E k \in EntriesBelow(before, cur) : i <= k) =>
                            day[i + 1] = before[i + 1]
                  /\ Greatest(NonEmpty(day)) = cur
                  /\ Least(NonEmpty(day)) =
                        IF NonEmpty(before) = {} THEN cur ELSE Least(NonEmpty(before))
                  /\ OneBlock(day)

\* a second recording at the last slot of the day, after one at the first
C17_Witness ==
    /\ timed = 0 /\ pc = "record" /\ is_some(out.choice)
    /\ now(clock) = DAY_SLOTS - 1
    /\ is_some(before[1]) /\ before[2] = None
    /\ out.asked = Some(<<1, DAY_SLOTS>>)
    /\ is_some(day[1]) /\ is_some(day[2]) /\ is_some(day[DAY_SLOTS])

(***************************************************************************)
(* Claims about split and until (SpecSplit)                                *)
(***************************************************************************)
SplitPcs == {"split", "until"}

\* the start of the unrecorded span of the last run: after the last entry
\* below the current slot, the current slot when there is none
SpanStart ==
    IF EntriesBelow(before, now(clock)) = {} THEN now(clock)
    ELSE Greatest(EntriesBelow(before, now(clock))) + 1

\* the slots lo..hi-1 of day hold the activity of the catalog choice ch, or
\* are unchanged when the choice was not recognised
Assigned(lo, hi, ch) ==
    \A i \in lo..(hi - 1) :
        IF ch = None THEN day[i + 1] = before[i + 1]
        ELSE /\ is_some(day[i + 1])
             /\ unwrap(day[i + 1]).name = activities[unwrap(ch)].name
             /\ unwrap(day[i + 1]).productive = activities[unwrap(ch)].productive

\* the slots outside lo..hi-1 are unchanged
UnchangedOutside(lo, hi) ==
    /\ Len(day) = Len(before)
    /\ \A i \in 0..(Len(day) - 1) : (i < lo \/ i >= hi) => day[i + 1] = before[i + 1]

C18_WitnessUntil ==
    /\ pc = "until" /\ out.exit = "ok"
    /\ Len(out.offered) = 1 /\ io.pick = None
    /\ is_some(out.point) /\ is_some(out.choices[1])

\* C19: when several split points are listed and the number entered is not
\* the index of one of them, the input is recovered locally: no activity is
\* assigned, the Day is unchanged and the run ends normally with its save.
C19_BadSplitIndexIsLocal ==
    (/\ pc \in SplitPcs
     /\ Len(out.offered) > 1
     /\ is_some(io.pick)
     /\ unwrap(io.pick) >= Len(out.offered)) =>
        /\ out.exit = "ok"
        /\ out.asks = <<>>
        /\ day = before
        /\ FileAt(files, today_date(clock)) = Some(to_json(before))

(***************************************************************************)
(* Claims about the editor round trip (SpecRound)                          *)
(***************************************************************************)
\* every assigned activity of ts is a catalog entry but for its comment
ClonesOfCatalog(ts) ==
    \A i \in 1..Len(ts) :
        is_some(ts[i]) =>
            \E k \in 1..Len(activities) :
                /\ activities[k].name = unwrap(ts[i]).name
                /\ activities[k].productive = unwrap(ts[i]).productive

\* the last run was an 'edit' whose editor left the file as it was written
UneditedRoundTrip ==
    /\ pc = "edit" /\ io.exit_ok
    /\ io.edit.op = "keep" /\ io.edit.all = None
    /\ Len(before) = DAY_SLOTS
    /\ ClonesOfCatalog(before)

\* C20: export of the timeline followed by the import of the unedited text
\* is the identity: every slot keeps its activity name, productive flag and
\* comment, whatever the comment text, and every empty slot stays empty.
C20_ExportImportIdentity ==
    UneditedRoundTrip => (out.exit = "ok" /\ day = before)

\* the commands of a run, and those among them that never mutate the Day
RunPcs ==
    { "help", "path", "today", "day", "yesterday", "week", "year", "json",
      "record", "activity", "comment", "edit", "split", "until" }

ReadOnlyPcs == { "help", "path", "today", "week", "year", "json" }

\* C21: every command that runs to its normal end finishes by overwriting
\* today's file with the in-memory Day, so afterwards today's file exists and
\* reads back as the in-memory Day; a command that never mutates the Day
\* (help, path, today, week, year, json) leaves the loaded Day as it was and
\* creates today's file holding an all-empty Day when none existed; no file
\* is ever removed, and a later aggregation counts every date of its range
\* whose file exists as a loaded day.
C21_NormalEndSavesDay ==
    [][ /\ (pc' \in RunPcs /\ out'.exit = "ok") =>
            /\ FileAt(files', today_date(clock)) = Some(to_json(day'))
            /\ from_json(unwrap(FileAt(files', today_date(clock)))) = day'
            /\ \A d \in FileDates \ {today_date(clock)} : files'[d] = files[d]
        /\ (pc' \in ReadOnlyPcs /\ out'.exit = "ok") =>
            /\ day' = before'
            /\ FileAt(files, today_date(clock)) = None =>
                    /\ day' = DefaultDay
                    /\ FileAt(files', today_date(clock)) = Some(to_json(DefaultDay))
        /\ \A d \in FileDates : FileExists(d) => is_some(FileAt(files', d))
        /\ (pc' \in {"week", "year"}) =>
            \A k \in 1..WeekDays :
                FileExists(DatesBack(WeekDays, clock)[k]) =>
                    \E j \in 1..Len(out'.loaded_dates) :
                        /\ out'.loaded_dates[j] = DatesBack(WeekDays, clock)[k]
                        /\ out'.days[j] =
                              from_json(unwrap(FileAt(files, DatesBack(WeekDays, clock)[k])))
      ]_vars

\* a run of 'week' that counts one loaded day, an all-empty one, which only
\* an earlier read-only command can have written
C21_Witness ==
    /\ pc = "week" /\ out.exit = "ok"
    /\ out.ndays = 1 /\ out.days[1] = DefaultDay
    /\ out.loaded_dates = <<today_date(clock)>>
    /\ day = DefaultDay
    /\ FileAt(files, today_date(clock)) = Some(to_json(DefaultDay))

\* C22: for every catalog activity whose derived shortcut is a character c,
\* entering c at Activity::prompt selects that activity and no other (here
\* on a Settings whose table is the one derived from its catalog).
C22_ShortcutSelectsItsActivity ==
    (/\ pc = "prompt"
     /\ out.table = get_shortcuts(activities)
     /\ is_some(io.line) /\ Len(unwrap(io.line)) = 1) =>
        \A i \in 1..Len(activities) :
            out.table[i] = Some(unwrap(io.line)[1]) =>
                (out.exit = "ok" /\ out.choice = Some(i))

\* the characters already claimed by the entries before the i-th
ClaimedBefore(t, i) == { t[j] : j \in 1..(i - 1) } \ {None}

\* C23: get_shortcuts on first use, processing the activities in catalog
\* order: each activity's shortcut is the first character of its name that is
\* not the shortcut of an earlier activity, or none when every character of
\* its name is already claimed; the table has one entry per catalog activity,
\* no two activities share a shortcut, and every shortcut is a character of
\* its own activity's name.
C23_ShortcutDerivation ==
    (pc = "get_shortcuts" /\ io.first) =>
        LET t == out.table
            name(i) == activities[i].name
        IN  /\ Len(t) = Len(activities)
            /\ \A i \in 1..Len(t) :
                /\ t[i] = None <=>
                      \A k \in 1..Len(name(i)) : Some(name(i)[k]) \in ClaimedBefore(t, i)
                /\ t[i] # None =>
                      \E k \in 1..Len(name(i)) :
                        /\ t[i] = Some(name(i)[k])
                        /\ t[i] \notin ClaimedBefore(t, i)
                        /\ \A l \in 1..(k - 1) : Some(name(i)[l]) \in ClaimedBefore(t, i)
            /\ \A i \in 1..Len(t), j \in 1..Len(t) :
                (i # j /\ t[i] # None) => t[i] # t[j]
            /\ \A i \in 1..Len(t) :
                t[i] # None => \E k \in 1..Len(name(i)) : name(i)[k] = unwrap(t[i])

\* a first call on a three-activity catalog: every character of the second
\* name is claimed by the first activity, the third takes its first character
C23_Witness ==
    /\ pc = "get_shortcuts" /\ io.first
    /\ Len(activities) = 3
    /\ activities[1].name = <<"a", "b">> /\ activities[2].name = <<"a">>
    /\ out.table = <<Some("a"), None, Some("b")>>

\* C24: get_shortcuts computes the table on the first call and caches it:
\* the cache, once filled, is never changed, not by a change of the catalog
\* either; it is filled from the catalog of the moment of the first call;
\* every call of get_shortcuts returns the cached table; and get_shortcut,
\* when it answers, answers the cached table's entry at the position of the
\* activity in the catalog of the moment of the call.
C24_TableCachedOnFirstCall ==
    [][ /\ shortcuts # None => shortcuts' = shortcuts
        /\ (shortcuts = None /\ shortcuts' # None) =>
                shortcuts' = Some(derive_shortcuts(activities, <<>>))
        /\ pc' = "set_activities" => shortcuts' = shortcuts
        /\ pc' = "get_shortcuts" =>
                (shortcuts' # None /\ out'.table = unwrap(shortcuts'))
        /\ (pc' = "get_shortcut" /\ io'.index # None) =>
                /\ shortcuts' # None
                /\ out'.exit = "ok" <=> unwrap(io'.index) <= Len(unwrap(shortcuts'))
                /\ out'.exit = "ok" =>
                        out'.shortcut = unwrap(shortcuts')[unwrap(io'.index)]
      ]_vars

\* get_shortcut answers for an activity of a changed catalog from the table
\* of the old catalog, and differently from a table derived from the new one
C24_Witness ==
    /\ pc = "get_shortcut" /\ out.exit = "ok" /\ io.index # None
    /\ shortcuts # None
    /\ Len(unwrap(shortcuts)) = Len(activities)
    /\ unwrap(shortcuts) # derive_shortcuts(activities, <<>>)
    /\ out.shortcut = unwrap(shortcuts)[unwrap(io.index)]
    /\ out.shortcut # derive_shortcuts(activities, <<>>)[unwrap(io.index)]

====
